---- MODULE Spec2Model ----
(***************************************************************************)
(* Model of the cart synchronizer of the storefront                        *)
(* (src/app/contexts/cart-context.tsx): the CartProvider state, its two    *)
(* effects (initializeCart, persistence), the four mutations and the       *)
(* remote cart API they talk to.                                           *)
(*                                                                         *)
(* A cart line is [id, quantity, stock]; price, title and thumbnail are    *)
(* display data that no operation branches on and are left out.            *)
(* Each async handler is split at its awaits: the part up to the fetch is  *)
(* one action, the continuation after the response another. A handler      *)
(* closes over the cartState of the render it was created in: that         *)
(* snapshot is kept in the in-flight record as "snap".                     *)
(***************************************************************************)
EXTENDS Integers, Sequences, FiniteSets, TLC

\* ---------------------------------------------------------------- bounds
MaxItems == 3
MaxQty == 2
MaxCartId == 2
MaxFaults == 1
MaxOps == 2
MaxTotal == 4
MaxProductId == 5

\* the page size of the product list: initialLimit, 20 in the loader
Limit == 2

\* ---------------------------------------------------------------- inputs
ProductIds == {1, 2}
Stocks == {0, 1}
AddQuantities == {1, 2}
UpdateQuantities == {0, 1, 2}

\* ------------------------------------------------- JavaScript number values
\* Numbers are integers plus the three non-numbers the code can produce.
NaN == -1000
Null == -1001
Undefined == -1002

DefaultStock == 100

ToNumber(x) == IF x = Null THEN 0 ELSE IF x = Undefined THEN NaN ELSE x

JsAdd(a, b) ==
  LET x == ToNumber(a)
      y == ToNumber(b)
  IN IF x = NaN \/ y = NaN THEN NaN ELSE x + y

\* a / b; no cart line of the API carries totalQuantity, so the dividend is
\* never a number here (a number / 0 would be Infinity or NaN in JavaScript).
JsDiv(a, b) ==
  LET x == ToNumber(a)
      y == ToNumber(b)
  IN IF x = NaN \/ y = NaN \/ y = 0 THEN NaN ELSE x \div y

MathMin(a, b) ==
  LET x == ToNumber(a)
      y == ToNumber(b)
  IN IF x = NaN \/ y = NaN THEN NaN ELSE IF x <= y THEN x ELSE y

\* a <= b
JsLe(a, b) ==
  LET x == ToNumber(a)
      y == ToNumber(b)
  IN x # NaN /\ y # NaN /\ x <= y

\* a > b, a >= b
JsGt(a, b) ==
  LET x == ToNumber(a)
      y == ToNumber(b)
  IN x # NaN /\ y # NaN /\ x > y

JsGe(a, b) ==
  LET x == ToNumber(a)
      y == ToNumber(b)
  IN x # NaN /\ y # NaN /\ x >= y

Truthy(x) == x \notin {0, NaN, Null, Undefined}

\* a || b
JsOr(a, b) == IF Truthy(a) THEN a ELSE b

\* property read: a missing property is undefined
JsProp(r, f) == IF f \in DOMAIN r THEN r[f] ELSE Undefined

\* JSON.stringify of a number: NaN is written as null
JsonNum(x) == IF x = NaN THEN Null ELSE x

\* String(n) / the id parsed back from the URL by the server
String(n) == ToString(n)
ParseId(s) == CHOOSE n \in 1..(MaxCartId + 1) : ToString(n) = s

\* optional values (localStorage.getItem returns null for a missing key)
Absent == <<>>
Some(v) == <<v>>
Present(o) == Len(o) > 0
Get(o) == o[1]

\* ------------------------------------------------------------ cart lines
RECURSIVE SumQty(_)
\* items.reduce((sum, item) => sum + item.quantity, 0)
SumQty(items) ==
  IF items = <<>> THEN 0
  ELSE JsAdd(SumQty(SubSeq(items, 1, Len(items) - 1)), items[Len(items)].quantity)

\* items.findIndex(item => item.id === id), 0 when there is none
FindIndex(items, id) ==
  IF \E i \in DOMAIN items : items[i].id = id
  THEN CHOOSE i \in DOMAIN items :
         items[i].id = id /\ \A j \in 1..(i - 1) : items[j].id # id
  ELSE 0

\* items.find(item => item.id === id)?.stock
FindStock(items, id) ==
  IF FindIndex(items, id) = 0 THEN Undefined ELSE items[FindIndex(items, id)].stock

\* items.filter(item => item.id !== id)
FilterOut(items, id) == SelectSeq(items, LAMBDA it : it.id # id)

\* items.map(p => ({ id: p.id, quantity: p.quantity })) through JSON.stringify
RequestLines(items) ==
  [i \in DOMAIN items |-> [id |-> items[i].id, quantity |-> JsonNum(items[i].quantity)]]

\* JSON.parse of a stored list: the values JSON.stringify wrote
JsonParse(text) == text

\* JSON.stringify(cartState.items)
JsonItems(items) ==
  [i \in DOMAIN items |->
     [id |-> items[i].id,
      quantity |-> JsonNum(items[i].quantity),
      stock |-> JsonNum(items[i].stock)]]

EmptyCart == [items |-> <<>>, totalQuantity |-> 0, cartId |-> Null]

\* ------------------------------------------------------------------ state
VARIABLES cartState, loading, storage, remote, nextId, hyd, ops, last, faults

\* the product list of the home route and the recommendations widget
VARIABLES home, widget

vars == <<cartState, loading, storage, remote, nextId, hyd, ops, last, faults,
          home, widget>>

\* the state of the cart synchronizer, the state of the two catalog views
cartVars == <<cartState, loading, storage, remote, nextId, hyd, ops, last, faults>>
catalogVars == <<home, widget>>

\* what the closures of a render of Home see: the observer callback and
\* fetchMoreProducts read hasMore, loadingMore, skip and products.length of
\* the render that created them
Snapshot(h) ==
  [hasMore |-> h.hasMore, loadingMore |-> h.loadingMore, skip |-> h.skip,
   count |-> Len(h.products)]

\* React renders Home and the effect attaches an observer of that render
Commit(h) == [h EXCEPT !.rendered = Snapshot(h)]

\* Home's state after its first render over the loader data (lines 43-47);
\* request holds the closure of a page fetch in flight
HomeOf(initialProducts, total) ==
  [initial |-> [products |-> initialProducts, total |-> total],
   products |-> initialProducts,
   skip |-> Limit,
   hasMore |-> Len(initialProducts) < total,
   loadingMore |-> FALSE,
   request |-> Absent,
   response |-> [outcome |-> "none", count |-> 0, total |-> 0],
   rendered |-> [hasMore |-> Len(initialProducts) < total, loadingMore |-> FALSE,
                 skip |-> Limit, count |-> Len(initialProducts)]]

\* RecommendationsWidget's state after its first render (lines 11-13): the
\* effect has issued its fetch
WidgetOf(currentProductId) ==
  [currentProductId |-> currentProductId,
   recommendedProducts |-> <<>>,
   loading |-> TRUE,
   error |-> FALSE,
   requests |-> <<currentProductId>>,
   batch |-> Absent]

\* the persistence effect, run after every render that changed items or cartId
PersistEffect(cs) ==
  [cartItems |-> IF Len(cs.items) > 0 \/ cs.cartId # Null
                 THEN Some(JsonItems(cs.items)) ELSE Absent,
   cartId |-> IF cs.cartId # Null THEN Some(String(cs.cartId)) ELSE Absent]

\* ------------------------------------------------------- initial conditions
InitCartLines ==
  { <<>>,
    <<[id |-> 1, quantity |-> 1, stock |-> 1], [id |-> 2, quantity |-> 1, stock |-> 1]>> }

InitStorages ==
  {[cartItems |-> Absent, cartId |-> Absent]}
  \cup {[cartItems |-> Some(JsonItems(l)), cartId |-> Some(String(1))] : l \in InitCartLines}
  \cup {[cartItems |-> Some(JsonItems(l)), cartId |-> Absent] : l \in InitCartLines \ {<<>>}}

\* the last call that returned and how it ended
NoCall == [kind |-> "none", outcome |-> "none", threw |-> FALSE, handler |-> "none"]

\* initializeCart's closure: the two values it read from localStorage
Closure(phase, outcome, st) ==
  [phase |-> phase, outcome |-> outcome, storedItems |-> st.cartItems,
   storedCartId |-> st.cartId]

Init ==
  /\ cartState = EmptyCart
  /\ loading = TRUE
  /\ storage \in InitStorages
  /\ remote \in [1..MaxCartId ->
                   {Absent} \cup {Some(RequestLines(l)) : l \in InitCartLines}]
  /\ \A n \in 2..MaxCartId : remote[n] = Absent
  /\ nextId = 2
  /\ hyd = Closure("unmounted", "none", [cartItems |-> Absent, cartId |-> Absent])
  /\ ops = <<>>
  /\ last = NoCall
  /\ faults = 0
  /\ home = HomeOf(<<>>, 0)
  /\ widget = WidgetOf(Undefined)

\* ------------------------------------------------------------ remote API
\* what the server keeps (and returns) for a list it is sent: "ok" keeps the
\* list as sent, "adjusted" is a server that lowers every quantity above one
\* by one (the response the comment at lines 448-449 allows for)
ServerLines(outcome, lines) ==
  IF outcome = "adjusted"
  THEN [i \in DOMAIN lines |->
          [id |-> lines[i].id,
           quantity |-> IF lines[i].quantity \notin {NaN, Null, Undefined}
                           /\ lines[i].quantity > 1
                        THEN lines[i].quantity - 1 ELSE lines[i].quantity]]
  ELSE lines

\* mutant: response.ok is not looked at, an error status counts as stored
StoredWithoutOkCheck(outcome) == outcome \in {"ok", "adjusted", "error"}

\* the server has stored the list and answers with a success status
Stored(outcome) == outcome \in {"ok", "adjusted"}

\* a request: the PUT body carries merge: false, the POST body has no merge
Request(method, id, lines) ==
  [method |-> method, cartId |-> id, products |-> lines,
   merge |-> IF method = "PUT" THEN "false" ELSE "absent"]

\* --------------------------------------------------------- initializeCart
\* the items built from a fetched cart (lines 57-64)
HydratedItems(products) ==
  [i \in DOMAIN products |->
     [id |-> products[i].id,
      quantity |-> products[i].quantity,
      stock |-> JsDiv(JsProp(products[i], "totalQuantity"), products[i].quantity)]]

\* mutant: a 404 is taken for an empty cart that still exists
HydrateResultKeepsId(outcome, cartId, products) ==
  IF outcome = "ok"
  THEN [items |-> HydratedItems(products),
        totalQuantity |-> SumQty(HydratedItems(products)),
        cartId |-> cartId]
  ELSE IF outcome = "notfound"
  THEN [items |-> <<>>, totalQuantity |-> 0, cartId |-> cartId]
  ELSE EmptyCart

\* mutant: response.ok is not looked at, a 500 body is read like a cart
HydrateResultNoOkCheck(outcome, cartId, products) ==
  IF outcome \in {"ok", "error"}
  THEN [items |-> HydratedItems(products),
        totalQuantity |-> SumQty(HydratedItems(products)),
        cartId |-> cartId]
  ELSE EmptyCart

\* the cart state initializeCart sets for each way its fetch can end
HydrateResult(outcome, cartId, products) ==
  IF outcome = "ok"
  THEN [items |-> HydratedItems(products),
        totalQuantity |-> SumQty(HydratedItems(products)),
        cartId |-> cartId]
  ELSE EmptyCart

\* mutant: the stored lines are adopted but their sum is not taken
LocalCartNoTotal(storedItems) ==
  [items |-> JsonParse(storedItems), totalQuantity |-> 0, cartId |-> Null]

\* the cart initializeCart adopts from stored items when there is no stored
\* cartId (lines 83-91)
LocalCart(storedItems) ==
  [items |-> JsonParse(storedItems),
   totalQuantity |-> SumQty(JsonParse(storedItems)),
   cartId |-> Null]

\* mount: both effects run, initializeCart up to its first await
Mount ==
  /\ hyd.phase = "unmounted"
  /\ IF Present(storage.cartId)
     THEN /\ hyd' = Closure("fetch", "none", storage)
          /\ loading' = TRUE
          /\ cartState' = cartState
     ELSE IF Present(storage.cartItems)
     THEN /\ hyd' = Closure("done", "local", storage)
          /\ cartState' = LocalCart(Get(storage.cartItems))
          /\ loading' = FALSE
     ELSE /\ hyd' = Closure("done", "empty", storage)
          /\ cartState' = EmptyCart
          /\ loading' = FALSE
  /\ storage' = PersistEffect(cartState')
  /\ UNCHANGED <<remote, nextId, ops, last, faults, home, widget>>

\* the fetch of initializeCart resolves (or rejects)
HydrateResolve(outcome) ==
  /\ hyd.phase = "fetch"
  /\ LET id == ParseId(Get(hyd.storedCartId))
         exists == id \in DOMAIN remote /\ Present(remote[id])
     IN /\ outcome \in {"ok", "malformed"} => exists
        /\ outcome = "notfound" => ~exists
        /\ cartState' = HydrateResult(outcome, id,
                                      IF exists THEN Get(remote[id]) ELSE <<>>)
  /\ hyd' = [hyd EXCEPT !.phase = "done", !.outcome = outcome]
  /\ storage' = PersistEffect(cartState')
  /\ loading' = FALSE
  /\ UNCHANGED <<remote, nextId, ops, last, faults, home, widget>>

Idle == hyd.phase = "done" /\ ops = <<>>

\* ---------------------------------------------------------- updateCartAPI
\* mutant: the cartId guard of updateCartAPI is missing
UpdateCartAPIRunsUnguarded(snap) == snap.cartId # Undefined

\* updateCartAPI issues its PUT only when the cartId of its closure is set
\* (lines 419-432)
UpdateCartAPIRuns(snap) == snap.cartId # Null /\ Truthy(snap.cartId)

\* the state updateCartAPI sets from a successful response: only when it was
\* called without an items override (lines 455-468)
UpdateCartAPIState(prev, overrideGiven, products) ==
  IF ~overrideGiven
  THEN [prev EXCEPT
          !.items = [i \in DOMAIN products |->
                       [id |-> products[i].id,
                        quantity |-> products[i].quantity,
                        stock |-> JsOr(FindStock(prev.items, products[i].id), 0)]],
          !.totalQuantity = SumQty(products)]
  ELSE prev

\* mutant: the catch block puts back the state the caller started from
UpdateCartAPICatchReverts(prev, pre) == pre

\* the state after updateCartAPI's catch block (lines 470-473): the error is
\* logged and nothing is set; pre is the state the caller started from
UpdateCartAPICatch(prev, pre) == prev

\* every caller passes an array, and an array is truthy
OverrideGiven(kind) == kind \in {"add", "update", "remove", "clear"}

\* the lines stay within the model's bounds
Bounded(items) ==
  /\ Len(items) <= MaxItems
  /\ \A i \in DOMAIN items : items[i].quantity = NaN \/ items[i].quantity <= MaxQty

\* a call in flight: its arguments, the cartState of its closure, its
\* requests, and where initializeCart stood when the call was made
Call(kind, pid, stock, qty) ==
  [kind |-> kind, pid |-> pid, stock |-> stock, qty |-> qty, pre |-> cartState,
   sent |-> <<>>, phase |-> hyd.phase]

\* a failed fetch raises: "throw new Error" on a non-success status, or the
\* rejection of fetch itself
Raises(outcome) == outcome \in {"error", "reject"}

\* mutant: only addToCart has a catch, the other functions rethrow
CatchesInAddToCartOnly(f) == f = "add"

\* the functions whose try block has a catch that logs and does not rethrow
Catches(f) ==
  f \in {"createNewCart", "updateCartAPI", "add", "update", "remove", "clear"}

\* the frames an error of the call's last request passes on its way out
Frames(call) ==
  IF call.sent = <<>> THEN {call.kind}
  ELSE {IF call.sent[Len(call.sent)].method = "POST"
        THEN "createNewCart" ELSE "updateCartAPI", call.kind}

\* the call rejects (throws into its caller)
Thrown(call, outcome) == Raises(outcome) /\ \A f \in Frames(call) : ~Catches(f)

\* the function that awaits the call's last request
Inner(call) ==
  IF call.sent[Len(call.sent)].method = "POST" THEN "createNewCart" ELSE "updateCartAPI"

\* the function whose catch block runs on an error of the call's last
\* request: the innermost one that has a catch
Handler(call, outcome) ==
  IF ~Raises(outcome) THEN "none"
  ELSE IF call.sent # <<>> /\ Catches(Inner(call)) THEN Inner(call)
  ELSE IF Catches(call.kind) THEN call.kind
  ELSE "uncaught"

Returned(call, outcome) ==
  [kind |-> call.kind, outcome |-> outcome, threw |-> Thrown(call, outcome),
   handler |-> Handler(call, outcome)]

\* the server may fail or adjust MaxFaults times
Allowed(outcome) == outcome = "ok" \/ faults < MaxFaults
Counted(outcome) == IF outcome = "ok" THEN faults ELSE faults + 1

\* mutant: a cart left without lines also loses its cartId
OptimisticDropsIdWhenEmpty(prev, newItems) ==
  IF newItems = <<>> THEN EmptyCart
  ELSE [prev EXCEPT !.items = newItems, !.totalQuantity = SumQty(newItems)]

\* the optimistic setCartState of a mutation: the new lines and their sum,
\* everything else (the cartId) as it was
Optimistic(prev, newItems) ==
  [prev EXCEPT !.items = newItems, !.totalQuantity = SumQty(newItems)]

\* mutant: neither the handler nor updateCartAPI sets loading before the fetch
MutateNoLoading(call, newItems) ==
  /\ Bounded(newItems)
  /\ cartState' = Optimistic(cartState, newItems)
  /\ storage' = PersistEffect(cartState')
  /\ IF UpdateCartAPIRuns(call.pre)
     THEN /\ ops' = Append(ops, [call EXCEPT !.sent =
                       <<Request("PUT", call.pre.cartId, RequestLines(newItems))>>])
          /\ loading' = loading
          /\ last' = last
     ELSE /\ ops' = ops
          /\ loading' = FALSE
          /\ last' = Returned(call, "nocart")
  /\ UNCHANGED <<remote, nextId, hyd, faults, home, widget>>

\* optimistic update of a mutation on an existing cart, then updateCartAPI
\* up to its fetch
Mutate(call, newItems) ==
  /\ Bounded(newItems)
  /\ cartState' = Optimistic(cartState, newItems)
  /\ storage' = PersistEffect(cartState')
  /\ IF UpdateCartAPIRuns(call.pre)
     THEN /\ ops' = Append(ops, [call EXCEPT !.sent =
                       <<Request("PUT", call.pre.cartId, RequestLines(newItems))>>])
          /\ loading' = TRUE
          /\ last' = last
     ELSE /\ ops' = ops
          /\ loading' = FALSE
          /\ last' = Returned(call, "nocart")
  /\ UNCHANGED <<remote, nextId, hyd, faults, home, widget>>

\* -------------------------------------------------------------- addToCart
\* the new line list of addToCart on an existing cart (lines 256-286)
AddItems(items, pid, stock, q) ==
  LET idx == FindIndex(items, pid)
      newQuantity == JsAdd(items[idx].quantity, q)
  IN IF idx # 0
     THEN IF JsLe(newQuantity, 0)
          THEN FilterOut(items, pid)
          ELSE [i \in DOMAIN items |->
                  IF items[i].id = pid
                  THEN [items[i] EXCEPT !.quantity = MathMin(newQuantity, items[i].stock)]
                  ELSE items[i]]
     ELSE Append(items, [id |-> pid, quantity |-> MathMin(q, stock), stock |-> stock])

\* mutant: the response lines are added to the lines the cart already has
CreatedCartMerges(prev, snap, pid, newId, products) ==
  LET lines == [i \in DOMAIN products |->
                  [id |-> products[i].id,
                   quantity |-> products[i].quantity,
                   stock |-> IF products[i].id = pid
                             THEN JsOr(FindStock(snap.items, pid), DefaultStock)
                             ELSE DefaultStock]]
  IN [prev EXCEPT !.cartId = newId,
                  !.items = prev.items \o lines,
                  !.totalQuantity = SumQty(prev.items \o lines)]

\* the updater createNewCart queues on a successful response (lines 144-163)
CreatedCart(prev, snap, pid, newId, products) ==
  [prev EXCEPT
     !.cartId = newId,
     !.items = [i \in DOMAIN products |->
                  [id |-> products[i].id,
                   quantity |-> products[i].quantity,
                   stock |-> IF products[i].id = pid
                             THEN JsOr(FindStock(snap.items, pid), DefaultStock)
                             ELSE DefaultStock]],
     !.totalQuantity = SumQty(products)]

\* mutant: the appended line is left out of totalQuantity
AddAfterCreateStaleTotal(prev, snap, pid, stock, q) ==
  IF FindIndex(snap.items, pid) # 0
  THEN LET updatedItems == [i \in DOMAIN prev.items |->
                              IF prev.items[i].id = pid
                              THEN [prev.items[i] EXCEPT !.stock = stock]
                              ELSE prev.items[i]]
       IN [prev EXCEPT !.items = updatedItems,
                       !.totalQuantity = SumQty(updatedItems)]
  ELSE [prev EXCEPT
          !.items = Append(prev.items, [id |-> pid, quantity |-> q, stock |-> stock])]

\* the updater addToCart queues after createNewCart returned an id
\* (lines 207-242); snap is the cartState of addToCart's closure
AddAfterCreate(prev, snap, pid, stock, q) ==
  IF FindIndex(snap.items, pid) # 0
  THEN LET updatedItems == [i \in DOMAIN prev.items |->
                              IF prev.items[i].id = pid
                              THEN [prev.items[i] EXCEPT !.stock = stock]
                              ELSE prev.items[i]]
       IN [prev EXCEPT !.items = updatedItems,
                       !.totalQuantity = SumQty(updatedItems)]
  ELSE [prev EXCEPT
          !.items = Append(prev.items, [id |-> pid, quantity |-> q, stock |-> stock]),
          !.totalQuantity = JsAdd(prev.totalQuantity, q)]

\* addToCart(product, quantity) up to its first fetch
AddToCart(pid, stock, q) ==
  LET call == Call("add", pid, stock, q)
  IN IF cartState.cartId = Null
     THEN /\ nextId + Cardinality({i \in DOMAIN ops :
                                     ops[i].sent[Len(ops[i].sent)].method = "POST"})
               <= MaxCartId
          /\ ops' = Append(ops, [call EXCEPT !.sent =
                       <<Request("POST", Null, <<[id |-> pid, quantity |-> JsonNum(q)]>>)>>])
          /\ loading' = TRUE
          /\ UNCHANGED <<cartState, storage, remote, nextId, hyd, last, faults, home, widget>>
     ELSE Mutate(call, AddItems(cartState.items, pid, stock, q))

\* the POST of createNewCart resolves (or rejects) and addToCart runs on
CreateResolve(i, outcome) ==
  /\ i \in DOMAIN ops
  /\ ops[i].sent[Len(ops[i].sent)].method = "POST"
  /\ Allowed(outcome)
  /\ faults' = Counted(outcome)
  /\ LET op == ops[i]
         req == op.sent[Len(op.sent)]
         products == ServerLines(outcome, req.products)
         created == CreatedCart(cartState, op.pre, op.pid, nextId, products)
         added == AddAfterCreate(created, op.pre, op.pid, op.stock, op.qty)
     IN IF outcome = "malformed"
        THEN \* a 200 response without a products array: the updater queued at
             \* line 144 throws when React renders it, after the handler has
             \* returned; no state is committed and the provider unmounts
             /\ remote' = [remote EXCEPT ![nextId] = Some(req.products)]
             /\ nextId' = nextId + 1
             /\ storage' = [storage EXCEPT !.cartId = Some(String(nextId))]
             /\ ops' = SubSeq(ops, 1, i - 1) \o SubSeq(ops, i + 1, Len(ops))
             /\ last' = Returned(op, outcome)
             /\ hyd' = [hyd EXCEPT !.phase = "crashed"]
             /\ UNCHANGED <<cartState, loading>>
        ELSE IF Stored(outcome)
        THEN /\ remote' = [remote EXCEPT ![nextId] = Some(products)]
             /\ nextId' = nextId + 1
             /\ hyd' = hyd
             /\ cartState' = added
             /\ storage' = PersistEffect(added)
             /\ IF UpdateCartAPIRuns(op.pre)
                THEN /\ ops' = [ops EXCEPT ![i].sent = Append(op.sent,
                                  Request("PUT", op.pre.cartId, RequestLines(op.pre.items)))]
                     /\ loading' = TRUE
                     /\ last' = last
                ELSE /\ ops' = SubSeq(ops, 1, i - 1) \o SubSeq(ops, i + 1, Len(ops))
                     /\ loading' = FALSE
                     /\ last' = Returned(op, outcome)
        ELSE /\ ops' = SubSeq(ops, 1, i - 1) \o SubSeq(ops, i + 1, Len(ops))
             /\ loading' = FALSE
             /\ last' = Returned(op, outcome)
             /\ UNCHANGED <<cartState, storage, remote, nextId, hyd>>
  /\ UNCHANGED <<home, widget>>

\* the PUT of updateCartAPI resolves (or rejects) and its caller runs on
PutResolve(i, outcome) ==
  /\ i \in DOMAIN ops
  /\ ops[i].sent[Len(ops[i].sent)].method = "PUT"
  /\ Allowed(outcome)
  /\ faults' = Counted(outcome)
  /\ LET op == ops[i]
         req == op.sent[Len(op.sent)]
         products == ServerLines(outcome, req.products)
     IN /\ Stored(outcome) => Present(remote[req.cartId])
        /\ remote' = IF Stored(outcome)
                     THEN [remote EXCEPT ![req.cartId] = Some(products)]
                     ELSE remote
        /\ cartState' = IF Stored(outcome)
                        THEN UpdateCartAPIState(cartState, OverrideGiven(op.kind), products)
                        ELSE UpdateCartAPICatch(cartState, op.pre)
        /\ last' = Returned(op, outcome)
  /\ storage' = PersistEffect(cartState')
  /\ ops' = SubSeq(ops, 1, i - 1) \o SubSeq(ops, i + 1, Len(ops))
  /\ loading' = FALSE
  /\ UNCHANGED <<nextId, hyd, home, widget>>

\* ---------------------------------------------------------- updateQuantity
\* mutant: the requested quantity is stored without the stock ceiling
UpdateItemsNoClamp(items, pid, q) ==
  IF JsLe(q, 0)
  THEN FilterOut(items, pid)
  ELSE [i \in DOMAIN items |->
          IF items[i].id = pid THEN [items[i] EXCEPT !.quantity = q] ELSE items[i]]

\* the new line list of updateQuantity (lines 321-329)
UpdateItems(items, pid, q) ==
  IF JsLe(q, 0)
  THEN FilterOut(items, pid)
  ELSE [i \in DOMAIN items |->
          IF items[i].id = pid
          THEN [items[i] EXCEPT !.quantity = MathMin(q, items[i].stock)]
          ELSE items[i]]

\* mutant: the return for a missing line forgets setLoading(false)
RefuseLeavesLoading(call, setsLoading) ==
  /\ last' = Returned(call, "noop")
  /\ loading' = IF setsLoading THEN TRUE ELSE loading
  /\ UNCHANGED <<cartState, storage, remote, nextId, hyd, ops, faults, home, widget>>

\* a guarded call that is refused: logged and ignored
Refuse(call, setsLoading) ==
  /\ last' = Returned(call, "noop")
  /\ loading' = IF setsLoading THEN FALSE ELSE loading
  /\ UNCHANGED <<cartState, storage, remote, nextId, hyd, ops, faults, home, widget>>

UpdateQuantity(pid, q) ==
  LET call == Call("update", pid, 0, q)
  IN IF cartState.cartId = Null
     THEN Refuse(call, FALSE)
     ELSE IF FindIndex(cartState.items, pid) = 0
     THEN Refuse(call, TRUE)
     ELSE Mutate(call, UpdateItems(cartState.items, pid, q))

\* ---------------------------------------------------------- removeFromCart
RemoveFromCart(pid) ==
  LET call == Call("remove", pid, 0, 0)
  IN IF cartState.cartId = Null
     THEN Refuse(call, FALSE)
     ELSE IF FindIndex(cartState.items, pid) = 0
     THEN Refuse(call, TRUE)
     ELSE Mutate(call, FilterOut(cartState.items, pid))

\* --------------------------------------------------------------- clearCart
ClearCart ==
  LET call == Call("clear", 0, 0, 0)
  IN IF cartState.cartId = Null
     THEN /\ cartState' = EmptyCart
          /\ storage' = PersistEffect(cartState')
          /\ last' = Returned(call, "local")
          /\ UNCHANGED <<loading, remote, nextId, hyd, ops, faults, home, widget>>
     ELSE Mutate(call, <<>>)

\* ------------------------------------------------------------ specification
\* the fetch of initializeCart is in flight and no call is
Hydrating == hyd.phase = "fetch" /\ ops = <<>>

\* the calls of a user who waits for each operation to complete, and the
\* updateQuantity and removeFromCart calls made before hydration has ended
Next ==
  \/ Mount
  \/ \E outcome \in {"ok", "notfound", "error", "reject", "malformed"} :
       HydrateResolve(outcome)
  \/ \E pid \in ProductIds, stock \in Stocks, q \in AddQuantities :
       Idle /\ AddToCart(pid, stock, q)
  \/ \E pid \in ProductIds, q \in UpdateQuantities : Idle /\ UpdateQuantity(pid, q)
  \/ \E pid \in ProductIds : Idle /\ RemoveFromCart(pid)
  \/ Idle /\ ClearCart
  \/ \E pid \in ProductIds, q \in UpdateQuantities : Hydrating /\ UpdateQuantity(pid, q)
  \/ \E pid \in ProductIds : Hydrating /\ RemoveFromCart(pid)
  \/ \E i \in DOMAIN ops, outcome \in {"ok", "adjusted", "error", "reject", "malformed"} :
       CreateResolve(i, outcome)
  \/ \E i \in DOMAIN ops, outcome \in {"ok", "adjusted", "error", "reject"} :
       PutResolve(i, outcome)

Spec == Init /\ [][Next]_vars

\* ------------------------------------------------------------------ views
\* the views render under a mounted provider
Mounted == hyd.phase \in {"fetch", "done"}

\* const cartItem = cartState.items.find(...);
\* const currentQuantity = cartItem ? cartItem.quantity : 0
CurrentQuantity(pid) ==
  IF FindIndex(cartState.items, pid) = 0 THEN 0
  ELSE cartState.items[FindIndex(cartState.items, pid)].quantity

\* ProductCard: the "Add to Cart" button, shown when currentQuantity === 0
ProductCardAdd(pid, stock) ==
  /\ Mounted
  /\ CurrentQuantity(pid) = 0
  /\ AddToCart(pid, stock, 1)

\* ProductCard: the "-" button, shown when currentQuantity is not 0
ProductCardDecrement(pid) ==
  /\ Mounted
  /\ CurrentQuantity(pid) # 0
  /\ IF CurrentQuantity(pid) = 1
     THEN RemoveFromCart(pid)
     ELSE UpdateQuantity(pid, JsAdd(CurrentQuantity(pid), -1))

\* ProductCard: the "+" button, disabled when currentQuantity >= product.stock
ProductCardIncrement(pid, stock) ==
  /\ Mounted
  /\ CurrentQuantity(pid) # 0
  /\ ~JsGe(CurrentQuantity(pid), stock)
  /\ UpdateQuantity(pid, JsAdd(CurrentQuantity(pid), 1))

\* ProductDetailPage: the same three controls, rendered when product.stock > 0
DetailAdd(pid, stock) == JsGt(stock, 0) /\ ProductCardAdd(pid, stock)
DetailDecrement(pid, stock) == JsGt(stock, 0) /\ ProductCardDecrement(pid)
DetailIncrement(pid, stock) == JsGt(stock, 0) /\ ProductCardIncrement(pid, stock)

\* CartPopup renders its lines and their buttons when the cart is not loading
\* and has lines
PopupLines == Mounted /\ loading = FALSE /\ Len(cartState.items) > 0

PopupDecrement(i) ==
  /\ PopupLines
  /\ i \in DOMAIN cartState.items
  /\ IF JsGt(cartState.items[i].quantity, 1)
     THEN UpdateQuantity(cartState.items[i].id, JsAdd(cartState.items[i].quantity, -1))
     ELSE RemoveFromCart(cartState.items[i].id)

PopupIncrement(i) ==
  /\ PopupLines
  /\ i \in DOMAIN cartState.items
  /\ UpdateQuantity(cartState.items[i].id, JsAdd(cartState.items[i].quantity, 1))

PopupRemove(i) ==
  /\ PopupLines
  /\ i \in DOMAIN cartState.items
  /\ RemoveFromCart(cartState.items[i].id)

\* the catalog the views take their products from: product 1 has one unit
\* in stock, product 2 is out of stock
CatalogStock(pid) == IF pid = 1 THEN 1 ELSE 0

\* a fresh browser and a server without carts, or a stored cart the server has
ViewInit ==
  /\ cartState = EmptyCart
  /\ loading = TRUE
  /\ \/ /\ storage = [cartItems |-> Absent, cartId |-> Absent]
        /\ remote = [n \in 1..MaxCartId |-> Absent]
        /\ nextId = 1
     \/ /\ \E l \in InitCartLines \ {<<>>} :
             /\ storage = [cartItems |-> Some(JsonItems(l)), cartId |-> Some(String(1))]
             /\ remote = [n \in 1..MaxCartId |->
                            IF n = 1 THEN Some(RequestLines(l)) ELSE Absent]
        /\ nextId = 2
  /\ hyd = Closure("unmounted", "none", [cartItems |-> Absent, cartId |-> Absent])
  /\ ops = <<>>
  /\ last = NoCall
  /\ faults = 0
  /\ home = HomeOf(<<>>, 0)
  /\ widget = WidgetOf(Undefined)

\* a user of the views, who does not wait: at most MaxOps calls in flight,
\* against a server whose cart calls succeed
ViewNext ==
  \/ Mount
  \/ \E outcome \in {"ok", "error"} : HydrateResolve(outcome)
  \/ \E pid \in ProductIds :
       Len(ops) < MaxOps /\ ProductCardAdd(pid, CatalogStock(pid))
  \/ \E pid \in ProductIds : Len(ops) < MaxOps /\ ProductCardDecrement(pid)
  \/ \E pid \in ProductIds :
       Len(ops) < MaxOps /\ ProductCardIncrement(pid, CatalogStock(pid))
  \/ \E pid \in ProductIds :
       Len(ops) < MaxOps /\ DetailAdd(pid, CatalogStock(pid))
  \/ \E pid \in ProductIds :
       Len(ops) < MaxOps /\ DetailDecrement(pid, CatalogStock(pid))
  \/ \E pid \in ProductIds :
       Len(ops) < MaxOps /\ DetailIncrement(pid, CatalogStock(pid))
  \/ \E i \in 1..MaxItems : Len(ops) < MaxOps /\ PopupDecrement(i)
  \/ \E i \in 1..MaxItems : Len(ops) < MaxOps /\ PopupIncrement(i)
  \/ \E i \in 1..MaxItems : Len(ops) < MaxOps /\ PopupRemove(i)
  \/ \E i \in DOMAIN ops : CreateResolve(i, "ok")
  \/ \E i \in DOMAIN ops : PutResolve(i, "ok")

ViewSpec == ViewInit /\ [][ViewNext]_vars

\* ------------------------------------------------------------- product list
\* the products the server returns for limit n at offset skip: ids skip+1..
Page(skip, n) == [i \in 1..n |-> skip + i]

\* mutant: fetchMoreProducts looks at loadingMore only
FetchAllowedWhileLoadingOnly(h) == ~h.loadingMore

\* the guards of the observer callback and of fetchMoreProducts
FetchAllowed(h) == h.hasMore /\ ~h.loadingMore

\* mutant: the page just received is not counted
HasMoreAfterStaleCount(count, page, total) == count < total

\* setHasMore((currentProductsCount + data.products.length) < data.total)
HasMoreAfter(count, page, total) == count + Len(page) < total

\* mutant: the indicator does not look at the initial load
EndOfResultsAnyInitial(h) ==
  ~h.loadingMore /\ ~h.hasMore /\ Len(h.products) > 0

\* the "You've reached the end!" indicator is rendered (line 127)
EndOfResults(h) ==
  /\ ~h.loadingMore
  /\ ~h.hasMore
  /\ Len(h.products) > 0
  /\ Len(h.initial.products) > 0

\* the loader's data: any page of at most Limit products and any total
HomeInit ==
  /\ cartState = EmptyCart
  /\ loading = TRUE
  /\ storage = [cartItems |-> Absent, cartId |-> Absent]
  /\ remote = [n \in 1..MaxCartId |-> Absent]
  /\ nextId = 1
  /\ hyd = Closure("unmounted", "none", [cartItems |-> Absent, cartId |-> Absent])
  /\ ops = <<>>
  /\ last = NoCall
  /\ faults = 0
  /\ widget = WidgetOf(Undefined)
  /\ \E n \in 0..Limit, total \in 0..MaxTotal : home = HomeOf(Page(0, n), total)

\* the sentinel becomes visible: the observer callback calls
\* fetchMoreProducts, which runs up to its fetch; a callback that finds the
\* guard false does nothing
SentinelVisible ==
  /\ FetchAllowed(home)
  /\ home' = Commit([home EXCEPT
                !.loadingMore = TRUE,
                !.request = Some([skip |-> home.skip, count |-> Len(home.products)])])
  /\ UNCHANGED <<cartVars, widget>>

\* the state fetchMoreProducts sets when the fetch of request req has
\* settled (lines 60-83); rest are the fetches still in flight
Arrived(h, req, rest, outcome, n, total) ==
  LET page == Page(req.skip, n)
  IN IF outcome = "ok" /\ Len(page) > 0
     THEN [h EXCEPT
             !.products = h.products \o page,
             !.skip = h.skip + Len(page),
             !.hasMore = HasMoreAfter(req.count, page, total),
             !.loadingMore = FALSE,
             !.request = rest,
             !.response = [outcome |-> outcome, count |-> n, total |-> total]]
     ELSE [h EXCEPT
             !.hasMore = FALSE,
             !.loadingMore = FALSE,
             !.request = rest,
             !.response = [outcome |-> outcome, count |-> n, total |-> total]]

\* the page fetch resolves with n products and a total, or fails
PageResolve(outcome, n, total) ==
  /\ Present(home.request)
  /\ outcome # "ok" => (n = 0 /\ total = 0)
  /\ home' = Commit(Arrived(home, Get(home.request), Absent, outcome, n, total))
  /\ UNCHANGED <<cartVars, widget>>

HomeNext ==
  \/ SentinelVisible
  \/ \E outcome \in {"ok", "error", "reject", "malformed"},
        n \in 0..Limit, total \in 0..MaxTotal :
       PageResolve(outcome, n, total)

HomeSpec == HomeInit /\ [][HomeNext]_vars

\* the observer callback fires before React has rendered the last state
\* change: the callback and fetchMoreProducts are those of the last render
SentinelVisibleBeforeRender ==
  /\ FetchAllowed(home.rendered)
  /\ Len(home.request) < MaxOps
  /\ home' = [home EXCEPT
                !.loadingMore = TRUE,
                !.request = Append(home.request,
                                   [skip |-> home.rendered.skip,
                                    count |-> home.rendered.count])]
  /\ UNCHANGED <<cartVars, widget>>

\* React renders the pending state change and the effect replaces the observer
Render ==
  /\ home.rendered # Snapshot(home)
  /\ home' = Commit(home)
  /\ UNCHANGED <<cartVars, widget>>

\* the i-th page fetch in flight settles
PageResolveAt(i, outcome, n, total) ==
  /\ i \in DOMAIN home.request
  /\ outcome # "ok" => (n = 0 /\ total = 0)
  /\ home' = Commit(Arrived(home, home.request[i],
                            SubSeq(home.request, 1, i - 1)
                              \o SubSeq(home.request, i + 1, Len(home.request)),
                            outcome, n, total))
  /\ UNCHANGED <<cartVars, widget>>

\* the product list when renders may lag behind the observer's callbacks
HomeLagNext ==
  \/ SentinelVisibleBeforeRender
  \/ Render
  \/ \E i \in 1..MaxOps, outcome \in {"ok", "error", "reject", "malformed"},
        n \in 0..Limit, total \in 0..MaxTotal :
       PageResolveAt(i, outcome, n, total)

HomeLagSpec == HomeInit /\ [][HomeLagNext]_vars

\* ---------------------------------------------------------- recommendations
\* products.slice(0, 4)
MaxShown == 4

\* the products n, n+1, .. of the catalogue, count of them
Range(lo, count) == [i \in 1..count |-> lo + i - 1]

Reverse(s) == [i \in 1..Len(s) |-> s[Len(s) + 1 - i]]

\* the product batches the server answers with, as the products' ids
Batches ==
  {Range(lo, count) : lo \in 0..1, count \in 0..MaxProductId}
    \cup {Reverse(Range(0, MaxProductId + 1))}

\* products.slice(0, n)
Slice(products, n) ==
  SubSeq(products, 1, IF Len(products) < n THEN Len(products) ELSE n)

\* the list fetchRecommendations stores for a batch (lines 28-35)
Recommended(batch, currentProductId) ==
  Slice(IF Truthy(currentProductId)
        THEN SelectSeq(batch, LAMBDA p : p # currentProductId)
        ELSE batch,
        MaxShown)

\* the products the widget renders (lines 50-66)
Shown(w) ==
  IF w.loading \/ w.error THEN <<>> ELSE w.recommendedProducts

\* the widget is mounted with or without a currentProductId
RecoInit ==
  /\ cartState = EmptyCart
  /\ loading = TRUE
  /\ storage = [cartItems |-> Absent, cartId |-> Absent]
  /\ remote = [n \in 1..MaxCartId |-> Absent]
  /\ nextId = 1
  /\ hyd = Closure("unmounted", "none", [cartItems |-> Absent, cartId |-> Absent])
  /\ ops = <<>>
  /\ last = NoCall
  /\ faults = 0
  /\ home = HomeOf(<<>>, 0)
  /\ \E id \in {Undefined} \cup 0..MaxProductId : widget = WidgetOf(id)

\* the parent renders the widget with another currentProductId: the effect
\* runs again and issues a fetch that closes over the new id
PropChange(id) ==
  /\ id # widget.currentProductId
  /\ Len(widget.requests) < MaxOps
  /\ widget' = [widget EXCEPT
                  !.currentProductId = id,
                  !.loading = TRUE,
                  !.error = FALSE,
                  !.requests = Append(widget.requests, id)]
  /\ UNCHANGED <<cartVars, home>>

\* the i-th fetch in flight resolves with a batch, or fails
RecoResolve(i, outcome, batch) ==
  /\ i \in 1..Len(widget.requests)
  /\ outcome # "ok" => batch = <<>>
  /\ LET rest == SubSeq(widget.requests, 1, i - 1)
                   \o SubSeq(widget.requests, i + 1, Len(widget.requests))
     IN widget' = IF outcome = "ok"
                  THEN [widget EXCEPT
                          !.recommendedProducts =
                             Recommended(batch, widget.requests[i]),
                          !.loading = FALSE,
                          !.requests = rest,
                          !.batch = Some(batch)]
                  ELSE [widget EXCEPT
                          !.error = TRUE,
                          !.loading = FALSE,
                          !.requests = rest]
  /\ UNCHANGED <<cartVars, home>>

RecoNext ==
  \/ \E id \in {Undefined} \cup 0..MaxProductId : PropChange(id)
  \/ \E i \in 1..MaxOps, outcome \in {"ok", "error", "reject"}, batch \in Batches :
       RecoResolve(i, outcome, batch)

RecoSpec == RecoInit /\ [][RecoNext]_vars

\* every fetch that was issued resolves or rejects, and a mounted provider
\* runs its effects
Fairness ==
  /\ WF_vars(Mount)
  /\ WF_vars(\E outcome \in {"ok", "notfound", "error", "reject", "malformed"} :
               HydrateResolve(outcome))
  /\ WF_vars(\E i \in DOMAIN ops,
                outcome \in {"ok", "adjusted", "error", "reject", "malformed"} :
               CreateResolve(i, outcome))
  /\ WF_vars(\E i \in DOMAIN ops, outcome \in {"ok", "adjusted", "error", "reject"} :
               PutResolve(i, outcome))

LiveSpec == Spec /\ Fairness

\* ------------------------------------------------------------------ claims
NoStorage == [cartItems |-> Absent, cartId |-> Absent]

\* C1: after hydration and any sequence of completed calls, every cart line
\* has quantity <= the stock recorded on that line.
C1_StockCeiling ==
  Idle => \A i \in DOMAIN cartState.items :
            JsLe(cartState.items[i].quantity, cartState.items[i].stock)

\* C2: after hydration and after every completed mutation, totalQuantity is
\* the sum (items.reduce with +) of the quantities of all lines.
C2_TotalQuantity == Idle => cartState.totalQuantity = SumQty(cartState.items)

\* C2 witness: a completed addToCart left two lines whose quantities add up
\* to more than either of them.
C2_Witness ==
  /\ Idle
  /\ last.kind = "add"
  /\ Len(cartState.items) = 2
  /\ cartState.items[1].quantity = 1
  /\ cartState.items[2].quantity = 2
  /\ cartState.totalQuantity = 3

\* C3: addToCart(product, q) on the empty cart with cartId null, whose
\* create-cart call succeeds with id N and the single seeded line, ends with
\* cartId = N, exactly one line {product.id, q}, totalQuantity = q and the
\* store holding cartId = N.
C3_CreateFromEmpty ==
  [][(/\ ops # <<>>
      /\ ops' = <<>>
      /\ ops[1].kind = "add"
      /\ ops[1].pre = EmptyCart
      /\ last'.outcome = "ok")
     => (/\ cartState'.cartId = nextId
         /\ Len(cartState'.items) = 1
         /\ cartState'.items[1].id = ops[1].pid
         /\ cartState'.items[1].quantity = ops[1].qty
         /\ cartState'.totalQuantity = ops[1].qty
         /\ storage'.cartId = Some(String(nextId)))]_vars

\* C4: no reachable cart state holds a line whose quantity is 0 or less:
\* every line has quantity >= 1.
C4_NoZeroLine ==
  Idle => \A i \in DOMAIN cartState.items : JsLe(1, cartState.items[i].quantity)

Min(a, b) == IF a <= b THEN a ELSE b

\* C5: updateQuantity(productId, q) on an existing cart with a line for
\* productId of stock s >= 1 removes the line when q <= 0 and otherwise
\* sets its quantity to min(q, s), within [1, s]; the other lines are
\* unchanged and the request carries the clamped quantity.
C5_UpdateClamps ==
  [][(ops # <<>> /\ ops' = <<>> /\ ops[1].kind = "update")
     => LET pre == ops[1].pre.items
            post == cartState'.items
            sent == ops[1].sent[1].products
            pid == ops[1].pid
            q == ops[1].qty
        IN /\ FilterOut(post, pid) = FilterOut(pre, pid)
           /\ \A i \in DOMAIN pre :
                (pre[i].id = pid /\ JsLe(1, pre[i].stock)) =>
                  IF q <= 0
                  THEN \A j \in DOMAIN post : post[j].id # pid
                  ELSE /\ i \in DOMAIN post
                       /\ post[i].id = pid
                       /\ post[i].quantity = Min(q, pre[i].stock)
                       /\ 1 <= post[i].quantity
                       /\ post[i].quantity <= pre[i].stock
                       /\ sent[i] = [id |-> pid, quantity |-> Min(q, pre[i].stock)]]_vars

\* C5 witness: updateQuantity(pid, 2) has set a line of stock 1 to quantity 1
\* and its request is in flight.
C5_Witness ==
  /\ ops # <<>>
  /\ ops[1].kind = "update"
  /\ ops[1].qty = 2
  /\ \E i \in DOMAIN cartState.items :
       /\ cartState.items[i].id = ops[1].pid
       /\ ops[1].pre.items[i].stock = 1
       /\ cartState.items[i].quantity = 1
       /\ ops[1].sent[1].products[i].quantity = 1

Pairs(lines) == {<<lines[i].id, lines[i].quantity>> : i \in DOMAIN lines}

\* C6: when no operation is in flight, cartId is set and every remote call
\* succeeded against a server that keeps the list it is sent, the (id,
\* quantity) pairs of cartState.items are those of the remote cart cartId.
C6_LocalRemote ==
  (/\ Idle
   /\ cartState.cartId # Null
   /\ faults = 0
   /\ hyd.outcome \in {"ok", "local", "empty"})
  => /\ Present(remote[cartState.cartId])
     /\ Pairs(cartState.items) = Pairs(Get(remote[cartState.cartId]))

\* C7: after addToCart, updateQuantity or removeFromCart on an existing cart
\* whose replace-cart call succeeds, every line's quantity is the quantity
\* the server returned for its product id, and its stock is the stock the
\* product had locally before the call.
C7_AdoptResponse ==
  [][(/\ ops # <<>>
      /\ ops' = <<>>
      /\ ops[1].kind \in {"add", "update", "remove"}
      /\ ops[1].sent[Len(ops[1].sent)].method = "PUT"
      /\ last'.outcome \in {"ok", "adjusted"})
     => LET resp == Get(remote'[ops[1].pre.cartId])
            pre == ops[1].pre.items
            post == cartState'.items
        IN \A i \in DOMAIN post :
             /\ \E j \in DOMAIN resp :
                  resp[j].id = post[i].id /\ resp[j].quantity = post[i].quantity
             /\ FindIndex(pre, post[i].id) # 0 =>
                  \E k \in DOMAIN pre :
                    pre[k].id = post[i].id /\ pre[k].stock = post[i].stock]_vars

\* C8: when no operation is in flight, the store mirrors the cart: the
\* stored cartId is the string form of cartState.cartId (absent iff it is
\* null) and the stored cartItems decode to cartState.items (absent only
\* when there are no lines).
C8_StoreMirrors ==
  Idle =>
    /\ storage.cartId = IF cartState.cartId = Null THEN Absent
                        ELSE Some(String(cartState.cartId))
    /\ IF Present(storage.cartItems)
       THEN JsonParse(Get(storage.cartItems)) = cartState.items
       ELSE cartState.items = <<>>

Hydrated(outcome) ==
  hyd.phase = "done" /\ hyd.outcome = outcome /\ ops = <<>> /\ last = NoCall

\* C9: hydration with a stored cart id whose fetch returns 404 ends with the
\* empty cart (no lines, totalQuantity 0, cartId null), both keys absent
\* from the store and loading false.
C9_NotFoundReset ==
  Hydrated("notfound") =>
    /\ cartState = EmptyCart
    /\ storage = NoStorage
    /\ loading = FALSE

\* C9 witness: a hydration that found stored lines under a stored id has
\* ended on a 404.
C9_Witness ==
  /\ Hydrated("notfound")
  /\ Present(hyd.storedCartId)
  /\ Present(hyd.storedItems)
  /\ Len(Get(hyd.storedItems)) > 0

\* C10 as stated: hydration whose fetch fails with a status other than 404
\* ends with cartState.items equal to the stored cartItems, which are still
\* in the store.
C10_Original ==
  (Hydrated("error") /\ Present(hyd.storedItems)) =>
    /\ cartState.items = JsonParse(Get(hyd.storedItems))
    /\ storage.cartItems = hyd.storedItems

\* C10 amended: hydration whose fetch fails with a status other than 404
\* ends with the empty cart (no lines, cartId null), both keys removed from
\* the store and loading false.
C10_ErrorReset ==
  Hydrated("error") =>
    /\ cartState = EmptyCart
    /\ storage = NoStorage
    /\ loading = FALSE

\* C10 witness: a hydration that found stored lines under a stored id has
\* ended on a failed fetch.
C10_Witness ==
  /\ Hydrated("error")
  /\ Present(hyd.storedItems)
  /\ Len(Get(hyd.storedItems)) > 0

\* C11: hydration with a stored cart id whose fetch succeeds gives every
\* fetched line the stock recorded for its product id in the stored
\* cartItems, or 100 when there is no record (the server reports no stock):
\* a positive integer in either case.
C11_HydratedStock ==
  Hydrated("ok") =>
    \A i \in DOMAIN cartState.items :
      LET line == cartState.items[i]
          known == IF Present(hyd.storedItems)
                   THEN FindStock(JsonParse(Get(hyd.storedItems)), line.id)
                   ELSE Undefined
      IN /\ line.stock = IF known # Undefined THEN known ELSE DefaultStock
         /\ JsLe(1, line.stock)

\* C12: a cart with at least one line and cartId null that was persisted is
\* reproduced by the hydration of a fresh provider: the same lines in the
\* same order, their sum as totalQuantity, cartId null, the store as it was,
\* and no remote call.
C12_RoundTrip ==
  Hydrated("local") =>
    /\ \E l \in InitCartLines :
         /\ hyd.storedItems = Some(JsonItems(l))
         /\ cartState.items = l
    /\ cartState.totalQuantity = SumQty(JsonParse(Get(hyd.storedItems)))
    /\ cartState.cartId = Null
    /\ storage = [cartItems |-> hyd.storedItems, cartId |-> Absent]
    /\ faults = 0
    /\ nextId = 2

\* C12 witness: a provider mounted on a store of two lines and no cartId
\* holds these two lines.
C12_Witness ==
  /\ Hydrated("local")
  /\ ~Present(hyd.storedCartId)
  /\ Len(Get(hyd.storedItems)) = 2
  /\ Len(cartState.items) = 2

\* C13: an addToCart(product, q) call started while cartId is null issues
\* exactly one request, a POST seeded with the single pair {product.id, q};
\* it has issued no PUT while in flight nor when it completes.
C13_OneCreateRequest ==
  [][/\ \A i \in DOMAIN ops' :
          (ops'[i].kind = "add" /\ ops'[i].pre.cartId = Null) =>
            ops'[i].sent = <<[method |-> "POST", cartId |-> Null, merge |-> "absent",
                              products |-> <<[id |-> ops'[i].pid,
                                              quantity |-> ops'[i].qty]>>]>>
     /\ (ops # <<>> /\ ops' = <<>> /\ ops[1].kind = "add" /\ ops[1].pre.cartId = Null) =>
          /\ Len(ops[1].sent) = 1
          /\ ops[1].sent[1].method = "POST"]_vars

\* C13 witness: an addToCart that created cart 2 has completed.
C13_Witness ==
  /\ Idle
  /\ last.kind = "add"
  /\ last.outcome = "ok"
  /\ nextId = 3
  /\ cartState.cartId = 2
  /\ Present(remote[2])

\* the lines of a cart as {id, quantity} pairs
IdQuantity(items) ==
  [j \in DOMAIN items |-> [id |-> items[j].id, quantity |-> items[j].quantity]]

\* C14: a call that mutates an existing cart has issued exactly one request:
\* a PUT to that cartId with merge false whose products are the complete
\* post-mutation line list as {id, quantity} pairs (empty for clearCart).
C14_FullReplace ==
  \A i \in DOMAIN ops :
    (ops[i].kind \in {"add", "update", "remove", "clear"} /\ ops[i].pre.cartId # Null) =>
      ops[i].sent = <<[method |-> "PUT", cartId |-> ops[i].pre.cartId, merge |-> "false",
                       products |-> IdQuantity(cartState.items)]>>

\* the lines a mutation of an existing cart computes from the lines of its
\* closure
MutatedItems(op) ==
  IF op.kind = "add" THEN AddItems(op.pre.items, op.pid, op.stock, op.qty)
  ELSE IF op.kind = "update" THEN UpdateItems(op.pre.items, op.pid, op.qty)
  ELSE IF op.kind = "remove" THEN FilterOut(op.pre.items, op.pid)
  ELSE <<>>

\* C15: when the PUT of a mutation on an existing cart fails (non-success
\* status or rejection), the cart after the call is the optimistic
\* post-mutation state (no rollback) and cartId is unchanged.
C15_NoRollback ==
  [][(/\ ops # <<>>
      /\ ops' = <<>>
      /\ ops[1].sent[Len(ops[1].sent)].method = "PUT"
      /\ last'.outcome \in {"error", "reject"})
     => /\ cartState' = [items |-> MutatedItems(ops[1]),
                         totalQuantity |-> SumQty(MutatedItems(ops[1])),
                         cartId |-> ops[1].pre.cartId]
        /\ cartState' = cartState]_vars

\* C15 witness: a removeFromCart whose PUT failed has completed and the line
\* it removed has not come back.
C15_Witness ==
  /\ Idle
  /\ last.kind = "remove"
  /\ last.outcome \in {"error", "reject"}
  /\ Len(cartState.items) = 1
  /\ Present(remote[cartState.cartId])
  /\ Len(Get(remote[cartState.cartId])) = 2

\* C16: no cart operation propagates a failure to its caller: whatever the
\* remote call's outcome (success, non-success status, rejection), the call
\* that returned last completed normally, it did not throw or reject.
C16_NoThrow == ~last.threw

\* C16 witness: an updateQuantity whose PUT was rejected has returned.
C16_Witness ==
  /\ Idle
  /\ last.kind = "update"
  /\ last.outcome = "reject"
  /\ ~last.threw

\* C17 as stated: updateQuantity or removeFromCart called while cartId is
\* null, or for a product id with no line, leaves cartState and the store
\* unchanged, issues no request and leaves loading false when it returns.
C17_Original ==
  [][(/\ ops = <<>>
      /\ ops' = <<>>
      /\ last' # last
      /\ last'.kind \in {"update", "remove"})
     => /\ cartState' = cartState
        /\ storage' = storage
        /\ remote' = remote
        /\ loading' = FALSE]_vars

\* C17 amended: updateQuantity or removeFromCart called while cartId is
\* null, or for a product id with no line, leaves cartState and the store
\* unchanged and issues no request; loading is left as it was when cartId is
\* null and is false when the line is missing. A request of these two calls
\* is only ever in flight for a line of an existing cart.
C17_MisuseNoOp ==
  [][/\ (/\ ops = <<>>
         /\ ops' = <<>>
         /\ last' # last
         /\ last'.kind \in {"update", "remove"})
        => /\ cartState' = cartState
           /\ storage' = storage
           /\ remote' = remote
           /\ loading' = IF cartState.cartId = Null THEN loading ELSE FALSE
     /\ \A i \in DOMAIN ops' :
          ops'[i].kind \in {"update", "remove"} =>
            /\ ops'[i].pre.cartId # Null
            /\ FindIndex(ops'[i].pre.items, ops'[i].pid) # 0]_vars

\* C17 witness: updateQuantity was refused while the fetch of initializeCart
\* was in flight, and loading is still true.
C17_Witness ==
  /\ Hydrating
  /\ last.kind = "update"
  /\ last.outcome = "noop"
  /\ cartState.cartId = Null
  /\ loading = TRUE

\* C18: removeFromCart(productId) on an existing cart that has the line
\* removes exactly that product's line: the other lines keep their order,
\* quantities and stock, totalQuantity is the sum of their quantities and
\* the PUT carries exactly these lines as {id, quantity} pairs.
C18_RemoveLine ==
  [][(ops = <<>> /\ ops' # <<>> /\ ops'[1].kind = "remove")
     => LET remaining == SelectSeq(cartState.items,
                                   LAMBDA line : line.id # ops'[1].pid)
        IN /\ cartState'.items = remaining
           /\ cartState'.totalQuantity = SumQty(remaining)
           /\ cartState'.cartId = cartState.cartId
           /\ Len(ops'[1].sent) = 1
           /\ ops'[1].sent[1].method = "PUT"
           /\ ops'[1].sent[1].cartId = cartState.cartId
           /\ ops'[1].sent[1].products = IdQuantity(remaining)]_vars

\* C19: clearCart on an existing cart keeps cartId, and the addToCart that
\* follows reuses the cart: it issues one PUT to the same cartId and no POST
\* (no new cart is created).
C19_ClearKeepsCart ==
  [][/\ (ops # <<>> /\ ops' = <<>> /\ ops[1].kind = "clear")
        => /\ ops[1].pre.cartId # Null
           /\ cartState'.cartId = ops[1].pre.cartId
           /\ cartState'.items = <<>>
     /\ (/\ ops = <<>>
         /\ ops' # <<>>
         /\ ops'[1].kind = "add"
         /\ last.kind = "clear"
         /\ last.outcome # "local")
        => /\ Len(ops'[1].sent) = 1
           /\ ops'[1].sent[1].method = "PUT"
           /\ ops'[1].sent[1].cartId = cartState.cartId
           /\ nextId' = nextId]_vars

\* C19 witness: after a clearCart whose PUT succeeded, an addToCart has a PUT
\* to the same cart in flight.
C19_Witness ==
  /\ ops # <<>>
  /\ ops[1].kind = "add"
  /\ last.kind = "clear"
  /\ last.outcome = "ok"
  /\ ops[1].sent[1].method = "PUT"
  /\ ops[1].sent[1].cartId = cartState.cartId

\* C20: after clearCart has completed on an existing cart, the store has no
\* cartItems key while the stored cartId is still the cart's id.
C20_ClearedStore ==
  (Idle /\ last.kind = "clear" /\ last.outcome # "local") =>
    /\ ~Present(storage.cartItems)
    /\ storage.cartId = Some(String(cartState.cartId))

\* C21: a line's stock is the stock of the product passed to the addToCart
\* call that created it: after a successful addToCart(product, q) that found
\* no line for product.id, every line for product.id has stock =
\* product.stock; updateQuantity, removeFromCart and the PUT responses leave
\* the stock of every line they keep as it was.
C21_StockFromProduct ==
  [][/\ (/\ ops # <<>>
         /\ ops' = <<>>
         /\ ops[1].kind = "add"
         /\ last'.outcome \in {"ok", "adjusted"}
         /\ FindIndex(ops[1].pre.items, ops[1].pid) = 0)
        => /\ FindIndex(cartState'.items, ops[1].pid) # 0
           /\ \A i \in DOMAIN cartState'.items :
                cartState'.items[i].id = ops[1].pid =>
                  cartState'.items[i].stock = ops[1].stock
     /\ (\/ (ops' # <<>> /\ ops'[1].kind \in {"update", "remove"})
         \/ (ops # <<>> /\ ops[1].sent[Len(ops[1].sent)].method = "PUT"))
        => \A i \in DOMAIN cartState'.items :
             \E j \in DOMAIN cartState.items :
               /\ cartState.items[j].id = cartState'.items[i].id
               /\ cartState.items[j].stock = cartState'.items[i].stock]_vars

\* C30: in every cart state reached by hydration and calls issued one at a
\* time, cartState.items has at most one line per product id.
C30_UniqueIds ==
  \A i, j \in DOMAIN cartState.items :
    cartState.items[i].id = cartState.items[j].id => i = j

Ready == Idle /\ loading = FALSE

\* C23: when every issued fetch resolves or rejects, hydration completes and
\* every started call completes, and the synchronizer returns to the ready
\* state with loading false, on every success and failure path (create-cart
\* failure and malformed responses included).
C23_ReturnsToReady ==
  /\ (hyd.phase \in {"unmounted", "fetch"}) ~> Ready
  /\ (ops # <<>>) ~> Ready

\* C24: no control of ProductCard, ProductDetailPage or CartPopup invokes
\* addToCart, updateQuantity or removeFromCart while loading is true: every
\* call a view starts (a request goes in flight, or the call is refused)
\* starts with loading false.
C24_ControlsDisabled ==
  [][(Len(ops') > Len(ops) \/ (ops' = ops /\ last' # last)) => loading = FALSE]_vars

\* C25: overlapping mutations are not serialized. An addToCart issued on a
\* null cart whose create-cart response arrives after the cart has got an id
\* (from an overlapping addToCart that read the same snapshot, or from
\* hydration) replaces the whole cart: the state then holds the new cart id
\* and only lines of that call's product, so what the other call added is
\* missing, which is neither what the two calls give in sequence nor what
\* either intended.
C25_NotSerialized ==
  [][(/\ Len(ops') < Len(ops)
      /\ last'.kind = "add"
      /\ last'.outcome = "ok"
      /\ nextId' = nextId + 1
      /\ cartState.cartId # Null)
     => /\ cartState'.cartId = nextId
        /\ cartState'.cartId # cartState.cartId
        /\ \E k \in DOMAIN ops :
             /\ ops' = SubSeq(ops, 1, k - 1) \o SubSeq(ops, k + 1, Len(ops))
             /\ ops[k].pre.cartId = Null
             /\ \A i \in DOMAIN cartState'.items :
                  cartState'.items[i].id = ops[k].pid]_vars

\* C25 witness: two overlapping addToCart calls on the empty cart, for
\* product 1 and then product 2, have both created a cart; the final cart is
\* the second one and product 1 is missing from it.
C25_Witness ==
  /\ hyd.phase = "done"
  /\ ops = <<>>
  /\ nextId = 3
  /\ remote[1] = Some(<<[id |-> 1, quantity |-> 1]>>)
  /\ remote[2] = Some(<<[id |-> 2, quantity |-> 1]>>)
  /\ cartState.cartId = 2
  /\ Len(cartState.items) > 0
  /\ \A i \in DOMAIN cartState.items : cartState.items[i].id = 2

\* a page fetch has just resolved
PageArrived == Present(home.request) /\ ~Present(home'.request)

C29_Recommendations ==
  [][\A batch \in Batches :
       (/\ widget.requests = <<widget.currentProductId>>
        /\ widget.currentProductId # Undefined
        /\ ~widget.error
        /\ RecoResolve(1, "ok", batch))
       => /\ Shown(widget') =
               Slice(SelectSeq(batch, LAMBDA p : p # widget.currentProductId),
                     MaxShown)
          /\ \A k \in 1..Len(Shown(widget')) :
               Shown(widget')[k] # widget.currentProductId]_vars

\* C31: from mount until hydration completes, the store still holds the
\* cartId and cartItems values it held at mount; they are not removed while
\* the fetch-cart call is in flight.
C31_StoreSurvives ==
  hyd.phase = "fetch" =>
    storage = [cartItems |-> hyd.storedItems, cartId |-> hyd.storedCartId]

\* the product has a line in the cart state and in the remote cart cartId
\* refers to
Holds(cs, carts, pid) ==
  /\ FindIndex(cs.items, pid) # 0
  /\ cs.cartId \in DOMAIN carts
  /\ Present(carts[cs.cartId])
  /\ FindIndex(Get(carts[cs.cartId]), pid) # 0

\* C32: an addToCart issued while the fetch of hydration is in flight is not
\* lost: when the later of the two completes, the cart state has a line for
\* the added product and cartId refers to the remote cart that holds it.
C32_AddDuringHydration ==
  [][/\ \A i \in DOMAIN ops :
          (/\ hyd.phase = "done"
           /\ Len(ops) = 1
           /\ ops' = <<>>
           /\ ops[i].kind = "add"
           /\ ops[i].phase = "fetch"
           /\ last'.outcome = "ok")
          => Holds(cartState', remote', ops[i].pid)
     /\ (/\ hyd.phase = "fetch"
         /\ hyd'.phase = "done"
         /\ ops = <<>>
         /\ last.kind = "add"
         /\ last.outcome = "ok")
        => \A k \in DOMAIN cartState.items :
             Holds(cartState', remote', cartState.items[k].id)]_vars

\* the create-cart requests in flight
CreatesInFlight ==
  {i \in DOMAIN ops : ops[i].sent[Len(ops[i].sent)].method = "POST"}

\* the ids of the remote carts created since mount
CreatedCarts ==
  {n \in 1..MaxCartId :
     /\ n < nextId
     /\ n >= (IF Present(hyd.storedCartId) THEN 2 ELSE 1)}

\* C33: at most one remote cart is created per session: however addToCart
\* calls started while cartId is null interleave, at most one create-cart
\* POST is issued, and when all calls have completed every remote cart that
\* was created is the one cartId refers to.
C33_OneCartPerSession ==
  /\ Cardinality(CreatesInFlight) <= 1
  /\ (hyd.phase = "done" /\ ops = <<>>)
     => \A n \in CreatedCarts : cartState.cartId = n

\* C34: creating the remote cart preserves locally held lines: when the cart
\* was hydrated local-only (lines, no cartId) and addToCart creates the
\* remote cart, every line present before the call is still present with its
\* quantity and stock, and the added product has a line.
C34_CreateKeepsLines ==
  [][(/\ Len(ops) = 1
      /\ ops' = <<>>
      /\ ops[1].kind = "add"
      /\ ops[1].pre.cartId = Null
      /\ ops[1].pre.items # <<>>
      /\ last'.outcome = "ok")
     => /\ FindIndex(cartState'.items, ops[1].pid) # 0
        /\ \A k \in DOMAIN ops[1].pre.items :
             LET line == ops[1].pre.items[k]
                 j == FindIndex(cartState'.items, line.id)
             IN /\ j # 0
                /\ line.id # ops[1].pid => cartState'.items[j] = line]_vars

\* C35: when the create-cart call of an addToCart on a null cart fails (a
\* non-success status or a rejected fetch), the cart state and the store are
\* left as they were before the call, no replace-cart call is issued and
\* loading is false afterwards.
C35_CreateFailure ==
  [][(/\ Len(ops) = 1
      /\ ops[1].sent[Len(ops[1].sent)].method = "POST"
      /\ faults' = faults + 1
      /\ Raises(last'.outcome))
     => /\ cartState' = ops[1].pre
        /\ cartState' = cartState
        /\ storage' = storage
        /\ ops' = <<>>
        /\ remote' = remote
        /\ loading' = FALSE]_vars

\* C35 witness: a cart hydrated local-only has kept its lines, and has no
\* cartId, after a create-cart call was answered with an error status.
C35_Witness ==
  /\ last.kind = "add"
  /\ last.outcome = "error"
  /\ hyd.outcome = "local"
  /\ ops = <<>>
  /\ loading = FALSE
  /\ cartState.cartId = Null
  /\ Len(cartState.items) = 2
  /\ storage = [cartItems |-> Some(JsonItems(cartState.items)), cartId |-> Absent]

\* C36: loading is true whenever at least one cart operation has a remote
\* call in flight, for every interleaving of overlapping operations: the
\* completion of one operation (or of hydration) never sets loading false
\* while another operation's remote call is pending.
C36_LoadingWhileInFlight ==
  [][/\ Len(ops') > Len(ops) => loading' = TRUE
     /\ (Len(ops') < Len(ops) /\ ops' # <<>>) => loading' = TRUE]_vars

\* C38: updateCartAPI surfaces a failed replace-cart call to its caller: when
\* the PUT returns a non-success status or rejects, the promise updateCartAPI
\* returned rejects, so the catch block that runs is the one of the calling
\* addToCart, updateQuantity, removeFromCart or clearCart.
C38_SurfacesFailure ==
  [][\A i \in DOMAIN ops :
       (/\ ops' = SubSeq(ops, 1, i - 1) \o SubSeq(ops, i + 1, Len(ops))
        /\ ops[i].sent[Len(ops[i].sent)].method = "PUT"
        /\ faults' = faults + 1
        /\ last'.kind = ops[i].kind
        /\ Raises(last'.outcome))
       => last'.handler = ops[i].kind]_vars

\* C37: page fetches are single-flight: at most one page fetch is in flight
\* at any time and no skip offset is requested twice, so the displayed list
\* never contains the same page twice, even when the sentinel's callback
\* fires again before Home has re-rendered with loadingMore true.
C37_SingleFlight ==
  /\ Len(home.request) <= 1
  /\ \A i, j \in DOMAIN home.request :
       home.request[i].skip = home.request[j].skip => i = j
  /\ \A i, j \in DOMAIN home.products :
       home.products[i] = home.products[j] => i = j

====
